---- MODULE Spec2Model ----
(***************************************************************************)
(* Model of the Retro Notes client (notes_frontend/src/App.js with the     *)
(* useDebouncedEffect hook).  The component state, the closures captured   *)
(* by outstanding network calls and by the debounce timer, and the         *)
(* completion of every call are modelled.  One React commit (render, the   *)
(* draft-sync effect, the debounce effect and the re-render they cause) is *)
(* one atomic step: the 650 ms timer cannot expire inside a commit.        *)
(***************************************************************************)
EXTENDS Integers, Sequences, FiniteSets

\* ---------------------------------------------------------------- bounds
MaxId == 2
MaxTime == 1
MaxList == 2
MaxUpdates == 2
MaxEvents == 2
MaxFairList == 1

\* ---------------------------------------------------------------- values
\* null / undefined for an id, and for an updatedAt
Null == 0
Ids == 1..MaxId
Times == 1..MaxTime

\* Text is a sequence of characters.  NoText stands for a field that is
\* missing, null or undefined in a service response.
NoText == <<"null">>
Space == " "

\* What the user can type into the title and content inputs.
DraftTitles == {<<>>, <<"b">>, <<"b", Space>>}
DraftContents == {<<>>, <<Space>>}

\* What the service can put into the fields of a note object.  The id and
\* updatedAt of a response stand for the first non-nullish of the four
\* spellings normalizeNote accepts.
RespIds == Ids \cup {Null}
RespTitles == {NoText, <<Space, "b">>}
RespContents == {NoText, <<Space>>}
RespTimes == Times \cup {Null}
RespNote == [id : RespIds, title : RespTitles, content : RespContents, updatedAt : RespTimes]

\* The elements of a list response: refreshNotes drops an element without an
\* id, so one such element stands for all of them; the content of a listed
\* note is left out.
ListedNote ==
  {n \in RespNote : /\ n.content = NoText
                    /\ n.id = Null => (n.title = NoText /\ n.updatedAt = Null)}

\* e.message of a rejected call: empty (or absent), or a server message.
Messages == {"", "E"}

\* ---------------------------------------------------------------- helpers
toSafeString(value) == IF value = NoText THEN <<>> ELSE value

RECURSIVE TrimLeft(_)
TrimLeft(s) == IF s # <<>> /\ Head(s) = Space THEN TrimLeft(Tail(s)) ELSE s

RECURSIVE TrimRight(_)
TrimRight(s) ==
  IF s # <<>> /\ s[Len(s)] = Space THEN TrimRight(SubSeq(s, 1, Len(s) - 1)) ELSE s

trim(s) == TrimRight(TrimLeft(s))

\* x || "" on a text value: a missing field and the empty string are falsy
OrEmpty(value) == IF value = NoText THEN <<>> ELSE value

normalizeNote(note) ==
  [id |-> note.id,
   title |-> trim(toSafeString(OrEmpty(note.title))),
   content |-> toSafeString(OrEmpty(note.content)),
   updatedAt |-> note.updatedAt]

\* buildPayload without the trim of the title
buildPayloadUntrimmed(title, content) ==
  [title |-> toSafeString(title), content |-> toSafeString(content)]

buildPayload(title, content) ==
  [title |-> trim(toSafeString(title)), content |-> toSafeString(content)]

\* a.updatedAt ? new Date(a.updatedAt).getTime() : 0
TimeOf(n) == IF n.updatedAt = Null THEN 0 ELSE n.updatedAt

\* Array.prototype.sort with comparator tb - ta: stable, newest first.
RECURSIVE InsertByTime(_, _)
InsertByTime(n, s) ==
  IF s = <<>> THEN <<n>>
  ELSE IF TimeOf(Head(s)) >= TimeOf(n) THEN <<Head(s)>> \o InsertByTime(n, Tail(s))
  ELSE <<n>> \o s

RECURSIVE SortFrom(_, _)
SortFrom(acc, s) == IF s = <<>> THEN acc ELSE SortFrom(InsertByTime(Head(s), acc), Tail(s))

SortNotes(s) == SortFrom(<<>>, s)

RECURSIVE FilterOutId(_, _)
FilterOutId(s, id) ==
  IF s = <<>> THEN <<>>
  ELSE IF Head(s).id = id THEN FilterOutId(Tail(s), id)
  ELSE <<Head(s)>> \o FilterOutId(Tail(s), id)

\* list.map(normalizeNote).filter((n) => n.id != null)
RECURSIVE NormalizeList(_)
NormalizeList(list) ==
  IF list = <<>> THEN <<>>
  ELSE IF normalizeNote(Head(list)).id = Null THEN NormalizeList(Tail(list))
  ELSE <<normalizeNote(Head(list))>> \o NormalizeList(Tail(list))

IdsOf(s) == [k \in 1..Len(s) |-> s[k].id]

HasId(s, id) == \E i \in 1..Len(s) : s[i].id = id

\* normalized[0]?.id ?? null
FirstId(s) == IF s = <<>> THEN Null ELSE s[1].id

\* The value of activeNote when there is none; NullNote.id is activeNote?.id.
NullNote == [id |-> Null, title |-> <<>>, content |-> <<>>, updatedAt |-> Null]

\* notes.find((n) => n.id === activeId) || null
ActiveNoteOf(ns, a) ==
  IF a # Null /\ HasId(ns, a)
  THEN ns[CHOOSE i \in 1..Len(ns) : ns[i].id = a /\ \A j \in 1..(i - 1) : ns[j].id # a]
  ELSE NullNote

RemoveAt(s, i) == SubSeq(s, 1, i - 1) \o SubSeq(s, i + 1, Len(s))

\* ---------------------------------------------------------------- state
VARIABLES
  notes,         \* useState([]): the store
  activeId,      \* useState(null)
  draftTitle,    \* useState("")
  draftContent,  \* useState("")
  loadingList, saving, mutating,  \* the three flags
  error,         \* useState("")
  timer,         \* the pending setTimeout of useDebouncedEffect and its closure
  lists,         \* outstanding listNotes() calls with the closure of refreshNotes
  creating,      \* an outstanding createNote() call
  del,           \* the outstanding deleteNote() call with the closure of handleDeleteActive
  updates,       \* outstanding updateNote() calls with the closure of the autosave effect
  clock,         \* the reading of new Date()
  events,        \* number of user events handled so far
  typedFor,      \* activeNote?.id when the draft was last typed into; Null after a draft reset
  burst,         \* number of edits since the timer was last idle or re-scoped to another note
  canceledSave,  \* a pending timer that would have saved was cancelled by a change of note
  mounted,       \* the component is mounted
  uncleared,     \* timeouts of earlier runs of the debounce effect that no cleanup has cleared
  gone           \* ids whose delete succeeded and that no call issued afterwards has returned

vars == <<notes, activeId, draftTitle, draftContent, loadingList, saving, mutating,
          error, timer, lists, creating, del, updates, clock, events, typedFor, burst, canceledSave,
          mounted, uncleared, gone>>

activeNote == ActiveNoteOf(notes, activeId)

\* What a closure reads of the activeNote it captured: its id, title and
\* content (updatedAt and raw are never read from a captured note).
Captured(an) == [id |-> an.id, title |-> an.title, content |-> an.content]

NoTimer == [armed |-> FALSE, note |-> Captured(NullNote), title |-> <<>>, content |-> <<>>]
NoDelete == [pending |-> FALSE, id |-> Null, remaining |-> <<>>]

\* A sync effect that leaves the draft of the previous note in place
DraftKept(an, old) == old

\* The draft emptied whatever the new active note holds
DraftCleared(an, old) == [title |-> <<>>, content |-> <<>>]

\* useEffect(..., [activeNote?.id]): the draft the sync effect leaves.
DraftAfterSync(an, old) == [title |-> an.title, content |-> an.content]

\* A cleanup that leaves the timeout of its effect run pending
CleanupKeepsHandle(t, left) == IF t.armed THEN left \cup {t} ELSE left

\* return () => clearTimeout(handle): the earlier timeouts still pending once
\* the cleanup of the effect run that set t has run.
Cleanup(t, left) == left

\* useDebouncedEffect: clearTimeout(handle) of the previous run, then
\* setTimeout(effect) with the closure of the render that changed the deps.
ArmTimer(an, t, c) == [armed |-> TRUE, note |-> Captured(an), title |-> t, content |-> c]

\* The payload the armed callback would send, and the one it compares with.
TimerPayload == buildPayload(timer.title, timer.content)
TimerCurrentPayload == buildPayload(timer.note.title, timer.note.content)

\* if (!activeNote) return; ... if (payload equals currentPayload) return;
TimerSkips == timer.note.id = Null \/ TimerPayload = TimerCurrentPayload

\* One commit: the new store, active id and draft as set by a handler, then
\* the draft-sync effect (deps [activeNote?.id]) and the debounce effect
\* (deps [activeNote?.id, draftTitle, draftContent]).
Commit(ns, a, dt, dc) ==
  LET an == ActiveNoteOf(ns, a)
      idChanged == an.id # activeNote.id
      d == IF idChanged THEN DraftAfterSync(an, [title |-> dt, content |-> dc])
           ELSE [title |-> dt, content |-> dc]
      depsChanged == idChanged \/ d.title # draftTitle \/ d.content # draftContent
  IN /\ notes' = ns
     /\ activeId' = a
     /\ draftTitle' = d.title
     /\ draftContent' = d.content
     /\ timer' = IF depsChanged THEN ArmTimer(an, d.title, d.content) ELSE timer
     /\ typedFor' = IF idChanged THEN Null
                    ELSE IF depsChanged THEN an.id
                    ELSE typedFor
     /\ burst' = IF idChanged THEN 0
                 ELSE IF depsChanged THEN (IF timer.armed THEN burst + 1 ELSE 1)
                 ELSE burst
     /\ canceledSave' = (canceledSave \/ (idChanged /\ timer.armed /\ ~TimerSkips))
     /\ uncleared' = IF depsChanged THEN Cleanup(timer, uncleared) ELSE uncleared

\* ---------------------------------------------------------------- Init
\* After mount: the store is empty, the initial refreshNotes is outstanding
\* and the debounce effect has armed its first timer.
Init ==
  /\ notes = <<>>
  /\ activeId = Null
  /\ draftTitle = <<>>
  /\ draftContent = <<>>
  /\ loadingList = TRUE
  /\ saving = FALSE
  /\ mutating = FALSE
  /\ error = ""
  /\ timer = ArmTimer(NullNote, <<>>, <<>>)
  /\ lists = <<[preserveSelection |-> TRUE, activeId |-> Null, nested |-> FALSE, deleted |-> {}]>>
  /\ creating = FALSE
  /\ del = NoDelete
  /\ updates = <<>>
  /\ clock = 1
  /\ events = 0
  /\ typedFor = Null
  /\ burst = 0
  /\ canceledSave = FALSE
  /\ mounted = TRUE
  /\ uncleared = {}
  /\ gone = {}

\* ---------------------------------------------------------------- user events
\* const canEdit = !!activeNote && !loadingList
canEdit == activeNote.id # Null /\ ~loadingList

\* onChange of the title input: setDraftTitle(e.target.value)
EditTitle(t) ==
  /\ mounted
  /\ canEdit
  /\ events < MaxEvents
  /\ events' = events + 1
  /\ t # draftTitle
  /\ Commit(notes, activeId, t, draftContent)
  /\ UNCHANGED <<loadingList, saving, mutating, error, lists, creating, del, updates, clock,
                 mounted, gone>>

\* onChange of the textarea: setDraftContent(e.target.value)
EditContent(c) ==
  /\ mounted
  /\ canEdit
  /\ events < MaxEvents
  /\ events' = events + 1
  /\ c # draftContent
  /\ Commit(notes, activeId, draftTitle, c)
  /\ UNCHANGED <<loadingList, saving, mutating, error, lists, creating, del, updates, clock,
                 mounted, gone>>

\* onClick of a list item: setActiveId(n.id); the list is rendered only
\* when loadingList is false.
Select(i) ==
  /\ mounted
  /\ ~loadingList
  /\ events < MaxEvents
  /\ events' = events + 1
  /\ notes[i].id # activeId
  /\ Commit(notes, notes[i].id, draftTitle, draftContent)
  /\ UNCHANGED <<loadingList, saving, mutating, error, lists, creating, del, updates, clock,
                 mounted, gone>>

\* refreshNotes up to its await; the closure keeps preserveSelection and
\* the activeId of the render that called it; deleted collects the ids whose
\* delete succeeds while the call is outstanding.
StartRefresh(preserve, nested) ==
  /\ error' = ""
  /\ loadingList' = TRUE
  /\ lists' = Append(lists, [preserveSelection |-> preserve, activeId |-> activeId, nested |-> nested,
                            deleted |-> {}])

\* onClick of Refresh (disabled={loadingList || mutating})
RefreshClick ==
  /\ mounted
  /\ ~loadingList /\ ~mutating
  /\ events < MaxEvents
  /\ events' = events + 1
  /\ StartRefresh(TRUE, FALSE)
  /\ UNCHANGED <<notes, activeId, draftTitle, draftContent, saving, mutating, timer,
                 creating, del, updates, clock, typedFor, burst, canceledSave,
                 mounted, uncleared, gone>>

\* onClick of "+ New note" (disabled={mutating}): handleCreate up to its await
CreateClick ==
  /\ mounted
  /\ ~mutating
  /\ events < MaxEvents
  /\ error' = ""
  /\ mutating' = TRUE
  /\ creating' = TRUE
  /\ events' = events + 1
  /\ UNCHANGED <<notes, activeId, draftTitle, draftContent, loadingList, saving, timer,
                 lists, del, updates, clock, typedFor, burst, canceledSave,
                 mounted, uncleared, gone>>

\* A delete that removes the note from the store before the call is made
DeleteClickOptimistic ==
  /\ mounted
  /\ activeNote.id # Null
  /\ ~mutating
  /\ events < MaxEvents
  /\ error' = ""
  /\ mutating' = TRUE
  /\ del' = [pending |-> TRUE, id |-> activeNote.id, remaining |-> IdsOf(FilterOutId(notes, activeNote.id))]
  /\ events' = events + 1
  /\ Commit(FilterOutId(notes, activeNote.id), activeId, draftTitle, draftContent)
  /\ UNCHANGED <<loadingList, saving, lists, creating, updates, clock, mounted, gone>>

\* onClick of Delete (disabled={!activeNote || mutating}): handleDeleteActive
\* up to its await; the closure keeps activeNote and notes of this render,
\* of which the completion reads the ids of notes.filter((n) => n.id !== activeNote.id).
DeleteClick ==
  /\ mounted
  /\ activeNote.id # Null
  /\ ~mutating
  /\ events < MaxEvents
  /\ error' = ""
  /\ mutating' = TRUE
  /\ del' = [pending |-> TRUE, id |-> activeNote.id, remaining |-> IdsOf(FilterOutId(notes, activeNote.id))]
  /\ events' = events + 1
  /\ UNCHANGED <<notes, activeId, draftTitle, draftContent, loadingList, saving, timer,
                 lists, creating, updates, clock, typedFor, burst, canceledSave,
                 mounted, uncleared, gone>>

\* ---------------------------------------------------------------- the debounce timer
\* The callback runs and returns before any call.
TimerFireSkip ==
  /\ mounted
  /\ timer.armed
  /\ TimerSkips
  /\ timer' = NoTimer
  /\ UNCHANGED <<notes, activeId, draftTitle, draftContent, loadingList, saving, mutating,
                 error, lists, creating, del, updates, clock, events, typedFor, burst, canceledSave,
                 mounted, uncleared, gone>>

\* The callback runs up to its await of updateNote(activeNote.id, payload).
TimerFireSave ==
  /\ mounted
  /\ timer.armed
  /\ ~TimerSkips
  /\ Len(updates) < MaxUpdates
  /\ timer' = NoTimer
  /\ error' = ""
  /\ saving' = TRUE
  /\ updates' = Append(updates, [id |-> timer.note.id, payload |-> TimerPayload])
  /\ UNCHANGED <<notes, activeId, draftTitle, draftContent, loadingList, mutating,
                 lists, creating, del, clock, events, typedFor, burst, canceledSave,
                 mounted, uncleared, gone>>

\* ---------------------------------------------------------------- completions
\* The message of the error without the fallback text
ErrorTextAsThrown(msg, fallback) == msg

\* e?.message || fallback
ErrorText(msg, fallback) == IF msg = "" THEN fallback ELSE msg

\* The selection refreshNotes leaves after setNotes(normalized); staleId is
\* the activeId of its closure, cur the activeId no setter has touched.
SelectionAfterLoad(preserve, staleId, cur, normalized) ==
  IF ~preserve THEN FirstId(normalized)
  ELSE IF staleId # Null /\ ~HasId(normalized, staleId) THEN FirstId(normalized)
  ELSE IF staleId = Null THEN FirstId(normalized)
  ELSE cur

\* listNotes() resolves with data; a nested call is the one handleCreate
\* awaits, whose finally then clears mutating.
ListOk(i, data) ==
  LET c == lists[i]
      normalized == SortNotes(NormalizeList(data))
  IN /\ mounted
     /\ Commit(normalized,
               SelectionAfterLoad(c.preserveSelection, c.activeId, activeId, normalized),
               draftTitle, draftContent)
     /\ loadingList' = FALSE
     /\ mutating' = IF c.nested THEN FALSE ELSE mutating
     /\ lists' = RemoveAt(lists, i)
     /\ gone' = {x \in gone : ~HasId(normalized, x) \/ x \in c.deleted}
     /\ UNCHANGED <<saving, error, creating, del, updates, clock, events,
                 mounted>>

\* A rejected listNotes() whose catch branch returns before loadingList is cleared
ListFailKeepsLoading(i, msg) ==
  /\ mounted
  /\ error' = ErrorText(msg, "Failed to load notes.")
  /\ mutating' = IF lists[i].nested THEN FALSE ELSE mutating
  /\ lists' = RemoveAt(lists, i)
  /\ UNCHANGED <<notes, activeId, draftTitle, draftContent, loadingList, saving, timer, creating, del,
                 updates, clock, events, typedFor, burst, canceledSave,
                 mounted, uncleared, gone>>

\* listNotes() rejects
ListFail(i, msg) ==
  /\ mounted
  /\ error' = ErrorText(msg, "Failed to load notes.")
  /\ loadingList' = FALSE
  /\ mutating' = IF lists[i].nested THEN FALSE ELSE mutating
  /\ lists' = RemoveAt(lists, i)
  /\ UNCHANGED <<notes, activeId, draftTitle, draftContent, saving, timer, creating, del,
                 updates, clock, events, typedFor, burst, canceledSave,
                 mounted, uncleared, gone>>

\* The created note put in front of a store that keeps its entries
InsertCreatedKeepDuplicate(createdNorm, prev) == <<createdNorm>> \o prev

\* setNotes((prev) => [createdNorm, ...prev.filter((n) => n.id !== createdNorm.id)])
InsertCreated(createdNorm, prev) == <<createdNorm>> \o FilterOutId(prev, createdNorm.id)

\* createNote() resolves with a note that carries an id
CreateOkInsert(created) ==
  LET createdNorm == normalizeNote(created)
  IN /\ mounted
     /\ creating
     /\ createdNorm.id # Null
     /\ Commit(InsertCreated(createdNorm, notes), createdNorm.id, draftTitle, draftContent)
     /\ mutating' = FALSE
     /\ creating' = FALSE
     /\ gone' = gone \ {createdNorm.id}
     /\ UNCHANGED <<loadingList, saving, error, lists, del, updates, clock, events,
                 mounted>>

\* createNote() resolves without a usable id: refreshNotes({preserveSelection: false})
CreateOkRefresh(created) ==
  /\ mounted
  /\ creating
  /\ normalizeNote(created).id = Null
  /\ StartRefresh(FALSE, TRUE)
  /\ creating' = FALSE
  /\ UNCHANGED <<notes, activeId, draftTitle, draftContent, saving, mutating, timer,
                 del, updates, clock, events, typedFor, burst, canceledSave,
                 mounted, uncleared, gone>>

\* createNote() rejects
CreateFail(msg) ==
  /\ mounted
  /\ creating
  /\ error' = ErrorText(msg, "Failed to create note.")
  /\ mutating' = FALSE
  /\ creating' = FALSE
  /\ UNCHANGED <<notes, activeId, draftTitle, draftContent, loadingList, saving, timer,
                 lists, del, updates, clock, events, typedFor, burst, canceledSave,
                 mounted, uncleared, gone>>

\* const remaining = notes.filter(...) on the notes of the closure;
\* setActiveId(remaining[0]?.id ?? null).  prev is the store after the removal.
SelectionAfterDelete(remaining, prev) == IF remaining = <<>> THEN Null ELSE remaining[1]

\* deleteNote() resolves
DeleteOk ==
  /\ mounted
  /\ del.pending
  /\ Commit(FilterOutId(notes, del.id),
            SelectionAfterDelete(del.remaining, FilterOutId(notes, del.id)),
            draftTitle, draftContent)
  /\ mutating' = FALSE
  /\ del' = NoDelete
  /\ lists' = [k \in 1..Len(lists) |-> [lists[k] EXCEPT !.deleted = @ \cup {del.id}]]
  /\ gone' = gone \cup {del.id}
  /\ UNCHANGED <<loadingList, saving, error, creating, updates, clock, events,
                 mounted>>

\* deleteNote() rejects
DeleteFail(msg) ==
  /\ mounted
  /\ del.pending
  /\ error' = ErrorText(msg, "Failed to delete note.")
  /\ mutating' = FALSE
  /\ del' = NoDelete
  /\ UNCHANGED <<notes, activeId, draftTitle, draftContent, loadingList, saving, timer,
                 lists, creating, updates, clock, events, typedFor, burst, canceledSave,
                 mounted, uncleared, gone>>

\* { ...activeNote, ...payload, ...(updatedNorm.id != null ? updatedNorm : {}),
\*   updatedAt: updatedNorm.updatedAt || new Date().toISOString() }
MergeNote(id, payload, updatedNorm, now) ==
  [id |-> IF updatedNorm.id # Null THEN updatedNorm.id ELSE id,
   title |-> IF updatedNorm.id # Null THEN updatedNorm.title ELSE payload.title,
   content |-> IF updatedNorm.id # Null THEN updatedNorm.content ELSE payload.content,
   updatedAt |-> IF updatedNorm.updatedAt # Null THEN updatedNorm.updatedAt ELSE now]

\* prev.map((n) => (n.id === activeNote.id ? merged : n)), then the re-sort
MergeIntoStore(prev, id, merged) ==
  SortNotes([k \in 1..Len(prev) |-> IF prev[k].id = id THEN merged ELSE prev[k]])

\* updateNote() resolves with updated; now is the reading of new Date()
UpdateOk(i, updated, now) ==
  LET u == updates[i]
      merged == MergeNote(u.id, u.payload, normalizeNote(updated), now)
  IN /\ mounted
     /\ Commit(MergeIntoStore(notes, u.id, merged), activeId, draftTitle, draftContent)
     /\ saving' = FALSE
     /\ updates' = RemoveAt(updates, i)
     /\ clock' = now
     /\ UNCHANGED <<loadingList, mutating, error, lists, creating, del, events,
                 mounted, gone>>

\* updateNote() rejects
UpdateFail(i, msg) ==
  /\ mounted
  /\ error' = ErrorText(msg, "Failed to save changes.")
  /\ saving' = FALSE
  /\ updates' = RemoveAt(updates, i)
  /\ UNCHANGED <<notes, activeId, draftTitle, draftContent, loadingList, mutating, timer,
                 lists, creating, del, clock, events, typedFor, burst, canceledSave,
                 mounted, uncleared, gone>>

\* The component unmounts: the cleanup of the debounce effect runs, the
\* state of the component is discarded and the calls still outstanding
\* settle into nothing.
Unmount ==
  /\ mounted
  /\ mounted' = FALSE
  /\ timer' = NoTimer
  /\ uncleared' = Cleanup(timer, uncleared)
  /\ notes' = <<>>
  /\ activeId' = Null
  /\ draftTitle' = <<>>
  /\ draftContent' = <<>>
  /\ loadingList' = FALSE
  /\ saving' = FALSE
  /\ mutating' = FALSE
  /\ error' = ""
  /\ lists' = <<>>
  /\ creating' = FALSE
  /\ del' = NoDelete
  /\ updates' = <<>>
  /\ clock' = 1
  /\ events' = 0
  /\ typedFor' = Null
  /\ burst' = 0
  /\ canceledSave' = FALSE
  /\ gone' = {}

\* ---------------------------------------------------------------- specification
\* The lists a listNotes() call can resolve with.
ListResponses == UNION {[1..n -> ListedNote] : n \in 0..MaxList}

\* The readings new Date() can give when the response carries no updatedAt.
Readings(updated) == IF updated.updatedAt = Null THEN clock..MaxTime ELSE {clock}

Next ==
  \/ \E t \in DraftTitles : EditTitle(t)
  \/ \E c \in DraftContents : EditContent(c)
  \/ \E i \in 1..Len(notes) : Select(i)
  \/ RefreshClick
  \/ CreateClick
  \/ DeleteClick
  \/ TimerFireSkip
  \/ TimerFireSave
  \/ \E i \in 1..Len(lists), data \in ListResponses : ListOk(i, data)
  \/ \E i \in 1..Len(lists), msg \in Messages : ListFail(i, msg)
  \/ \E created \in RespNote : CreateOkInsert(created)
  \/ \E created \in RespNote : CreateOkRefresh(created)
  \/ \E msg \in Messages : CreateFail(msg)
  \/ DeleteOk
  \/ \E msg \in Messages : DeleteFail(msg)
  \/ \E i \in 1..Len(updates), updated \in RespNote : \E now \in Readings(updated) : UpdateOk(i, updated, now)
  \/ \E i \in 1..Len(updates), msg \in Messages : UpdateFail(i, msg)
  \/ Unmount

Spec == Init /\ [][Next]_vars

\* ---------------------------------------------------------------- claims
IdSet(s) == {s[k].id : k \in 1..Len(s)}
UpdateIssued == Len(updates') > Len(updates)
UpdateCompleted == Len(updates') < Len(updates)
\* Changes of the active note and of the draft of the mounted component
NoteChanged == mounted' /\ activeNote'.id # activeNote.id
DraftChanged == mounted' /\ (draftTitle' # draftTitle \/ draftContent' # draftContent)

\* C1: in every reachable state the active id is null or the id of a note
\* in the store.
C1_ActiveInStore == activeId = Null \/ HasId(notes, activeId)

\* C2: in every reachable state the store is ordered newest first: each
\* note's updatedAt (absent counted as 0) is at least that of the next note.
C2_StoreOrdered == \A k \in 1..(Len(notes) - 1) : TimeOf(notes[k]) >= TimeOf(notes[k + 1])

\* C3: a change of the active note from X to Y re-scopes the debounce timer
\* to Y with Y's stored title and content as its draft and issues no update
\* call; an armed timer is always scoped to the current active note and
\* draft; and every update call is issued for the note that is active when
\* it is issued, with a payload typed while that note was active.
C3_NoLeakAcrossNotes ==
  [][/\ NoteChanged =>
          /\ ~UpdateIssued
          /\ timer'.armed
          /\ draftTitle' = activeNote'.title
          /\ draftContent' = activeNote'.content
     /\ timer'.armed =>
          /\ timer'.note.id = activeNote'.id
          /\ timer'.title = draftTitle'
          /\ timer'.content = draftContent'
     /\ UpdateIssued =>
          /\ updates'[Len(updates')].id = activeNote.id
          /\ updates'[Len(updates')].id = typedFor
          /\ updates'[Len(updates')].payload.title = trim(draftTitle)
          /\ updates'[Len(updates')].payload.content = draftContent]_vars

\* C3 witness: the note was changed while a timer that would have saved the
\* previous note's draft was pending, and the timer armed by the change has
\* fired without a call being issued.
C3_Witness ==
  /\ canceledSave
  /\ activeNote.id # Null
  /\ ~timer.armed
  /\ updates = <<>>

\* C4: an edit never issues an update call, it re-arms the one timer with
\* the edited draft; an update call is issued only by the armed timer
\* firing after the last edit, it consumes the timer, it is a single call
\* and its payload is the trimmed draft title and the raw draft content.
C4_BurstOneSave ==
  [][/\ DraftChanged =>
          /\ ~UpdateIssued
          /\ timer'.armed
          /\ timer'.title = draftTitle'
          /\ timer'.content = draftContent'
     /\ UpdateIssued =>
          /\ Len(updates') = Len(updates) + 1
          /\ timer.armed /\ ~timer'.armed
          /\ ~DraftChanged
          /\ updates'[Len(updates')].payload = [title |-> trim(draftTitle), content |-> draftContent]]_vars

\* C4 witness: a burst of two edits ended with the timer firing and one
\* update call outstanding that carries the last draft.
C4_Witness ==
  /\ burst >= 2
  /\ ~timer.armed
  /\ Len(updates) = 1
  /\ updates[1].payload = [title |-> trim(draftTitle), content |-> draftContent]
  /\ draftTitle # trim(draftTitle)

\* C5: when the timer fires for active note X, an update call is issued if
\* and only if the pending payload differs from the title and content the
\* store holds for X at that moment.
C5_SaveIffStoreDiffers ==
  [][(timer.armed /\ ~timer'.armed /\ activeNote.id # Null) =>
       (UpdateIssued <=>
          [title |-> trim(timer.title), content |-> timer.content]
            # [title |-> trim(activeNote.title), content |-> activeNote.content])]_vars

\* C6: a completed update of note X leaves the set of ids in the store as
\* it was.
C6_IdentityKept == [][UpdateCompleted => IdSet(notes') = IdSet(notes)]_vars

\* C7: in every reachable state no two notes of the store have the same id.
C7_UniqueIds == \A i, j \in 1..Len(notes) : i # j => notes[i].id # notes[j].id

\* C8: after a successful update of X with payload P, the entry of X has
\* P's title unless the response supplied a title, and P's content unless
\* the response supplied a content.
C8_SavedFieldsKept ==
  [][\A i \in 1..Len(updates), updated \in RespNote :
       (\E now \in Readings(updated) : UpdateOk(i, updated, now)) =>
         \A k \in 1..Len(notes') :
           notes'[k].id = updates[i].id =>
             /\ updated.title = NoText => notes'[k].title = updates[i].payload.title
             /\ updated.content = NoText => notes'[k].content = updates[i].payload.content]_vars

\* C9: a failed update sets a non-empty error message, leaves the store,
\* the active id, the draft and the timer as they were and issues no call;
\* update calls are issued only by an armed timer firing.
C9_FailedSaveKeepsStore ==
  [][/\ \A i \in 1..Len(updates), msg \in Messages :
          UpdateFail(i, msg) =>
            /\ error' # ""
            /\ notes' = notes
            /\ activeId' = activeId
            /\ draftTitle' = draftTitle /\ draftContent' = draftContent
            /\ timer' = timer
            /\ updates' = RemoveAt(updates, i)
     /\ UpdateIssued => (timer.armed /\ ~timer'.armed)]_vars

\* C9 witness: an update call has failed with no message of its own, no
\* call is outstanding and no timer is armed while the draft still differs
\* from the stored note.
C9_Witness ==
  /\ error = "Failed to save changes."
  /\ updates = <<>>
  /\ ~timer.armed
  /\ ~saving
  /\ activeNote.id # Null
  /\ buildPayload(draftTitle, draftContent) # buildPayload(activeNote.title, activeNote.content)

\* C10: after a successful delete the active id is the id of the first
\* note of the store as it stands after the removal, or null if it is empty.
C10_DeleteSelectsFirst == [][DeleteOk => activeId' = FirstId(notes')]_vars

\* C11: requesting a delete changes neither the store nor the active id; a
\* failed delete leaves the store and the active id as they were, so the
\* note is still in the store, and sets a non-empty error message.
C11_DeleteNotOptimistic ==
  [][/\ (~del.pending /\ del'.pending) => (notes' = notes /\ activeId' = activeId)
     /\ \A msg \in Messages :
          DeleteFail(msg) =>
            /\ notes' = notes
            /\ activeId' = activeId
            /\ HasId(notes, del.id) => HasId(notes', del.id)
            /\ error' # ""]_vars

\* C11 witness: a delete has failed with no message of its own and the note
\* it was to delete is still the active note of the store.
C11_Witness ==
  /\ error = "Failed to delete note."
  /\ ~del.pending
  /\ ~mutating
  /\ activeNote.id # Null

\* C12: when a list call completes successfully, with the preserve policy
\* the id active at that moment stays active if the new list holds it, and
\* otherwise, or with the reset policy, the active id becomes the first id
\* of the new ordered list, or null when the list is empty.
C12_SelectionAfterLoad ==
  [][\A i \in 1..Len(lists), data \in ListResponses :
       ListOk(i, data) =>
         LET normalized == SortNotes(NormalizeList(data))
         IN activeId' = IF lists[i].preserveSelection /\ HasId(normalized, activeId)
                        THEN activeId
                        ELSE FirstId(normalized)]_vars

\* The step is the successful completion of the list call lists[i]: the
\* call leaves the outstanding calls and the error is as it was, which a
\* rejected call allows only when the error was already set.
ListSucceeded(i) ==
  /\ mounted'
  /\ Len(lists') < Len(lists)
  /\ lists' = RemoveAt(lists, i)
  /\ error' = error
  /\ error = "" \/ \E data \in ListResponses : ListOk(i, data)

C18_SavingWhileOutstanding == updates # <<>> => saving

\* C19: whenever the identity of the active note changes, the draft becomes
\* the stored title and content of the new active note (empty strings when
\* there is none) and the timer armed by the change is one that issues no
\* update call; as long as nothing is typed for the new note the armed timer
\* stays such a timer, and its firing issues no update call.
C19_SwitchIssuesNoSave ==
  [][/\ NoteChanged =>
          /\ draftTitle' = activeNote'.title
          /\ draftContent' = activeNote'.content
          /\ activeNote'.id = Null => (draftTitle' = <<>> /\ draftContent' = <<>>)
          /\ typedFor' = Null
          /\ timer'.armed
     /\ (typedFor' = Null /\ timer'.armed) => TimerSkips'
     /\ (typedFor = Null /\ timer.armed /\ ~timer'.armed) => ~UpdateIssued]_vars

\* C19 witness: a note with a stored title has become the active note,
\* nothing was typed for it, and the timer armed by the change has fired
\* with no update call outstanding.
C19_Witness ==
  /\ mounted
  /\ typedFor = Null
  /\ ~timer.armed
  /\ activeNote.id # Null
  /\ activeNote.title # <<>>
  /\ draftTitle = activeNote.title
  /\ updates = <<>>

\* The number of entries of the store s equal to the note n
Occurrences(s, n) == Cardinality({k \in 1..Len(s) : s[k] = n})

\* C20: an update call for note X that settles while another note is the
\* active note leaves the active id, the draft and the timer as they were,
\* issues no update call, and leaves every note whose id is not X in the
\* store as often as before and no note with another id new in the store.
C20_LateSaveTouchesOnlyItsNote ==
  [][\A i \in 1..Len(updates) :
       (/\ mounted'
        /\ UpdateCompleted
        /\ updates' = RemoveAt(updates, i)
        /\ activeNote.id # updates[i].id) =>
          /\ activeId' = activeId
          /\ draftTitle' = draftTitle
          /\ draftContent' = draftContent
          /\ timer' = timer
          /\ Len(updates') = Len(updates) - 1
          /\ \A k \in 1..Len(notes) :
               notes[k].id # updates[i].id => Occurrences(notes', notes[k]) = Occurrences(notes, notes[k])
          /\ \A k \in 1..Len(notes') :
               notes'[k].id # updates[i].id => Occurrences(notes, notes'[k]) = Occurrences(notes', notes'[k])]_vars

\* The timeouts that are set and not cleared: the one of the last effect
\* run, if armed, and those a cleanup has left behind.
LiveTimers == uncleared \cup (IF timer.armed THEN {timer} ELSE {})

\* C15: in every reachable state at most one timeout is live, no timeout
\* of an earlier effect run is left uncleared, and after the unmount none
\* is live.
C15_OneLiveTimer ==
  /\ Cardinality(LiveTimers) <= 1
  /\ uncleared = {}
  /\ ~mounted => LiveTimers = {}

\* C15 witness: the timer was re-armed by a second edit while the timer of
\* the first edit was pending, and only the last one is live.
C15_Witness ==
  /\ mounted
  /\ burst >= 2
  /\ timer.armed
  /\ LiveTimers = {timer}

\* C17: a note whose delete call has succeeded comes back into the store
\* only by the response to a create call or to a list call issued after
\* that delete succeeded (create calls never overlap a delete call).
C17_DeletedStaysGone ==
  [][\A x \in gone :
       (mounted' /\ ~HasId(notes, x) /\ HasId(notes', x)) =>
          \/ \E created \in RespNote : CreateOkInsert(created) /\ normalizeNote(created).id = x
          \/ \E i \in 1..Len(lists) :
               /\ x \notin lists[i].deleted
               /\ \E data \in ListResponses : ListOk(i, data)]_vars

\* ---------------------------------------------------------------- autosave alone
\* The response of a service that echoes the saved payload of the call u
\* under the id of the saved note, with or without an updatedAt.
EchoResponse(u, t) ==
  [id |-> u.id, title |-> u.payload.title, content |-> u.payload.content, updatedAt |-> t]

\* updateNote() resolves with the echo of its payload
UpdateEcho(i, t, now) == UpdateOk(i, EchoResponse(updates[i], t), now)

\* The initial load, then edits, selections, the timer and update calls
\* that all succeed with an echo: no refresh, create or delete.
EchoNext ==
  \/ \E t \in DraftTitles : EditTitle(t)
  \/ \E c \in DraftContents : EditContent(c)
  \/ \E i \in 1..Len(notes) : Select(i)
  \/ TimerFireSkip
  \/ TimerFireSave
  \/ \E i \in 1..Len(lists), data \in ListResponses : ListOk(i, data)
  \/ \E i \in 1..Len(updates), t \in RespTimes : \E now \in Readings([updatedAt |-> t]) : UpdateEcho(i, t, now)

EchoSpec == Init /\ [][EchoNext]_vars

\* C16: with every update call echoed and no refresh, create or delete, in
\* every state with an active note, no timer pending and no update call
\* outstanding, the store holds for the active note the trimmed draft title
\* (the stored title compared as the callback compares it, trimmed) and the
\* draft content.
C16_QuiescentConsistency ==
  (mounted /\ activeNote.id # Null /\ ~timer.armed /\ updates = <<>>) =>
     /\ trim(activeNote.title) = trim(draftTitle)
     /\ activeNote.content = draftContent

\* ---------------------------------------------------------------- calls that settle
\* A listNotes() call settles: it rejects, or it leaves the outstanding
\* calls in another step of the mounted component, which resolves it.
ListSettles ==
  \/ \E i \in 1..Len(lists), msg \in Messages : ListFail(i, msg)
  \/ mounted /\ \E i \in 1..Len(lists) : lists' = RemoveAt(lists, i) /\ mounted'

\* The createNote() call settles
CreateSettles ==
  \/ \E msg \in Messages : CreateFail(msg)
  \/ mounted /\ creating /\ ~creating' /\ mounted'

\* The deleteNote() call settles
DeleteSettles == DeleteOk \/ \E msg \in Messages : DeleteFail(msg)

\* An updateNote() call settles
UpdateSettles ==
  \/ \E i \in 1..Len(updates), msg \in Messages : UpdateFail(i, msg)
  \/ mounted /\ \E i \in 1..Len(updates) : updates' = RemoveAt(updates, i) /\ mounted'

\* The lists of at most MaxFairList notes a listNotes() call can resolve with
ShortListResponses == UNION {[1..n -> ListedNote] : n \in 0..MaxFairList}

\* The steps of the component, the list responses drawn from the short lists
FairNext ==
  \/ \E t \in DraftTitles : EditTitle(t)
  \/ \E c \in DraftContents : EditContent(c)
  \/ \E i \in 1..Len(notes) : Select(i)
  \/ RefreshClick
  \/ CreateClick
  \/ DeleteClick
  \/ TimerFireSkip
  \/ TimerFireSave
  \/ \E i \in 1..Len(lists), data \in ShortListResponses : ListOk(i, data)
  \/ \E i \in 1..Len(lists), msg \in Messages : ListFail(i, msg)
  \/ \E created \in RespNote : CreateOkInsert(created)
  \/ \E created \in RespNote : CreateOkRefresh(created)
  \/ \E msg \in Messages : CreateFail(msg)
  \/ DeleteOk
  \/ \E msg \in Messages : DeleteFail(msg)
  \/ \E i \in 1..Len(updates), updated \in RespNote : \E now \in Readings(updated) : UpdateOk(i, updated, now)
  \/ \E i \in 1..Len(updates), msg \in Messages : UpdateFail(i, msg)
  \/ Unmount

\* The component with a network on which every outstanding call settles
FairSpec ==
  /\ Init
  /\ [][FairNext]_vars
  /\ WF_vars(ListSettles)
  /\ WF_vars(CreateSettles)
  /\ WF_vars(DeleteSettles)
  /\ WF_vars(UpdateSettles)

\* No network call is outstanding
NoCallOutstanding == lists = <<>> /\ ~creating /\ ~del.pending /\ updates = <<>>

\* C14: in every state with no outstanding call the loading, saving and
\* mutating flags are all false, and, every outstanding call settling in
\* the end, each flag that is set is false again later.
C14_FlagsCleared ==
  /\ [](NoCallOutstanding => (~loadingList /\ ~saving /\ ~mutating))
  /\ loadingList ~> ~loadingList
  /\ saving ~> ~saving
  /\ mutating ~> ~mutating

\* C14 witness: a list call has been rejected, no call is outstanding and
\* the three flags are false.
C14_Witness ==
  /\ mounted
  /\ error = "Failed to load notes."
  /\ NoCallOutstanding
  /\ ~loadingList /\ ~saving /\ ~mutating

====
